---- MODULE Spec2Model ----
(***************************************************************************)
(* The crawl controller of scripts/ig_scraper.py: main() as a state        *)
(* machine over the outcomes of ig_request, the asynchronous signal        *)
(* handler, and the JSON-lines event stream written by output().           *)
(*                                                                         *)
(* Python's None, "" and 0 are all falsy and the script only ever tests    *)
(* them by truthiness, so an absent cursor and an absent follower cap are  *)
(* 0 and an absent target id is "".  A follower record is its pk (an       *)
(* integer); its username and full_name are functions of the pk.  A        *)
(* continuation token is the number of pages already served, so the page   *)
(* requested with max_id = c is page c + 1.  The proxy option (one info    *)
(* event before the first request) is not modelled.  Sleeps are recorded   *)
(* by the range they are drawn from and the factor applied to the draw;    *)
(* a wait that is also reported in an event is recorded with its value,    *)
(* in tenths of a second.                                                  *)
(***************************************************************************)
EXTENDS Integers, Sequences, FiniteSets, TLC

\* ---- program constants
MAX_RETRIES == 5
DELAY_ON_ERROR == <<60, 120>>

\* ---- bounds of the environment
MaxFaults == 2          \* failed requests per run, over all configurations
MaxPages == 2           \* pages of the follower listing
MaxPageSize == 2        \* records per page
MaxInitFollowers == 1   \* followers supplied in the configuration
MaxCap == 2             \* largest configured max_followers
RetryFaults == 6        \* failed requests per run, when one call site keeps failing
RetryFollowers == 2     \* followers left to enrich in the resumed enrichment
BackoffFaults == 5      \* rate-limited requests per run, when the draws vary

VARIABLES
  config,          \* what stdin carried
  env,             \* what the platform may do in this run
  pc,              \* position of main()
  terminated,      \* the module-level flag set by handle_signal
  stdout_open,     \* whether the reader of stdout is still attached
  exit_status,     \* -1 while running, else the process exit status
  followers,       \* main: followers
  target_user_id,  \* main: target_user_id
  end_cursor,      \* main: end_cursor
  attempt,         \* main: attempt (loop variable of both retry loops)
  resolved,        \* main: resolved
  i,               \* main: i (index of the follower being enriched)
  total,           \* main: total
  trace,           \* history: requests issued, events emitted, sleeps taken
  faults,          \* history: failed requests so far (bounded by MaxFaults)
  resp,            \* ig_request: resp, the response session.get returned
  result           \* ig_request: what the call returned or raised

vars == <<config, env, pc, terminated, stdout_open, exit_status, followers,
          target_user_id, end_cursor, attempt, resolved, i, total, trace, faults,
          resp, result>>

locals == <<followers, target_user_id, end_cursor, attempt, resolved, i, total>>

\* ---- trace entries
Ev(name) == [t |-> "ev", event |-> name]
Sleep(range, mult) == [t |-> "sleep", range |-> range, mult |-> mult]
\* time.sleep(wait), wait being a draw from `range` times `mult`
TimeSleep(wait, range, mult) ==
  [t |-> "sleep", range |-> range, mult |-> mult, secs |-> wait]

\* random.uniform(*DELAY_ON_ERROR) in tenths of a second: both ends of the
\* range and a value in between that has to be rounded
Draws == {10 * DELAY_ON_ERROR[1], 845, 10 * DELAY_ON_ERROR[2]}

\* round(wait): to the nearest integer, a half to the even one
Round(w) ==
  LET q == w \div 10
      r == w % 10
  IN  IF r < 5 THEN q
      ELSE IF r > 5 THEN q + 1
      ELSE IF q % 2 = 0 THEN q ELSE q + 1

\* mutant: the draw is not scaled by the attempt
RateLimitWaitFlat(draw, att) == draw + 0 * att

\* `wait = random.uniform(*DELAY_ON_ERROR) * (attempt + 1)`
RateLimitWait(draw, att) == draw * (att + 1)

IsEv(e, name) == e.t = "ev" /\ e.event = name
IsReq(e) == e.t = "req"
IsReqTo(e, path) == e.t = "req" /\ e.path = path

\* ---- the outcomes of ig_request, as main() distinguishes them: "ok" is a
\* try block that ran to its end, and "ApiError" stands for every exception
\* that only `except Exception` catches, whether raised by ig_request or by
\* the reading of its payload
Failures == {"SessionExpired", "RateLimited", "NotFound", "ApiError"}
Outcomes == {"ok"} \cup Failures

\* ---- ig_request: one GET and the classification of its response
\* A body is plain text, JSON that is not an object (array, string, number,
\* null), or a JSON object; an object has no "message", a message that is a
\* string or a list of strings, or one of another type (null, number).  A
\* string message is the set of the markers it contains, a list the set of
\* the markers among its elements.
Markers == {"challenge_required", "checkpoint_required", "login_required"}
Statuses == {200, 204, 400, 401, 403, 404, 429, 500}
Paths == {"accounts/current_user/", "users/web_profile_info/"}

Body(kind, msg, has) == [kind |-> kind, msg |-> msg, has |-> has]
NoBody == Body("none", "absent", {})
Bodies ==
  {Body("text", "absent", {}), Body("json_other", "absent", {}),
   Body("object", "absent", {}), Body("object", "other", {})}
  \cup {Body("object", m, h) : m \in {"str", "list"}, h \in SUBSET Markers}

NoResponse == [path |-> "", status |-> 0, body |-> NoBody]
NoResult == [exc |-> "none", status |-> 0, detail |-> "", payload |-> NoBody]

Raise(exc, status, detail) ==
  [exc |-> exc, status |-> status, detail |-> detail, payload |-> NoBody]
Return(payload) == [exc |-> "", status |-> 0, detail |-> "", payload |-> payload]

\* the `if resp.status_code == 400` block: resp.json(), data.get("message", ""),
\* the three `in msg` tests, and `except (ValueError, KeyError)`
Classify400(r) ==
  IF r.body.kind = "text" THEN Raise("ApiError", r.status, "text")
  ELSE IF r.body.kind # "object" THEN Raise("AttributeError", 0, "get")
  ELSE IF r.body.msg = "other" THEN Raise("TypeError", 0, "in")
  ELSE IF "challenge_required" \in r.body.has \/ "checkpoint_required" \in r.body.has
    THEN Raise("SessionExpired", 0, "Challenge required")
  ELSE IF "login_required" \in r.body.has
    THEN Raise("SessionExpired", 0, "Login required")
  ELSE Raise("ApiError", r.status, "message")

ig_request(r) ==
  IF r.status = 401 THEN Raise("SessionExpired", 0, "Session expired (401)")
  ELSE IF r.status = 400 THEN Classify400(r)
  ELSE IF r.status = 429 THEN Raise("RateLimited", 0, "Rate limited (429)")
  ELSE IF r.status = 404 THEN Raise("NotFound", 0, r.path)
  ELSE IF r.status # 200 THEN Raise("ApiError", r.status, "text")
  ELSE IF r.body.kind = "text" THEN Raise("ApiError", r.status, "text")
  ELSE Return(r.body)

\* ---- the configurations read from stdin
ConfigFollowers(n) == [j \in 1..n |-> 100 + j]

ValidConfigs ==
  { c \in [raw : {TRUE}, required : {TRUE}, phase : {"full", "bios", "other"},
            cursor : 0..1,
            followers : {ConfigFollowers(n) : n \in 0..MaxInitFollowers},
            start_bio_index : 0..(MaxInitFollowers + 1),
            target_user_id : {"", "cfg_id"},
            max_followers : 0..MaxCap] :
      c.start_bio_index <= Len(c.followers) + 1 }

\* nothing on stdin (raw = FALSE), or a configuration without session_id
\* or target_username (required = FALSE)
BadConfigs ==
  { [raw |-> r, required |-> FALSE, phase |-> "full", cursor |-> 0,
     followers |-> <<>>, start_bio_index |-> 0,
     target_user_id |-> "", max_followers |-> 0] : r \in BOOLEAN }

\* a fresh crawl, and an enrichment resumed at index 1 with a cursor left over
FreshConfig ==
  [raw |-> TRUE, required |-> TRUE, phase |-> "full", cursor |-> 0,
   followers |-> <<>>, start_bio_index |-> 0,
   target_user_id |-> "", max_followers |-> 0]

ResumedConfig ==
  [raw |-> TRUE, required |-> TRUE, phase |-> "bios", cursor |-> 1,
   followers |-> ConfigFollowers(RetryFollowers + 1), start_bio_index |-> 1,
   target_user_id |-> "cfg_id", max_followers |-> 0]

\* a snapshot whose list has grown past the cap, collected again from the start
OverCapConfig ==
  [raw |-> TRUE, required |-> TRUE, phase |-> "full", cursor |-> 0,
   followers |-> ConfigFollowers(MaxCap), start_bio_index |-> MaxCap,
   target_user_id |-> "cfg_id", max_followers |-> MaxCap - 1]

Sites == {"validate", "lookup", "page", "info"}

\* What the platform may do in a run: how many requests it fails, at which
\* call sites and how, how many pages the listing has and how large a page
\* is, and what random.uniform draws for an error backoff.
\* Every configuration meets a platform that fails a few requests anywhere;
\* the fresh crawl and the resumed enrichment also meet one that fails a
\* single call site often enough to exhaust its retry loop, and one that
\* rate-limits a single call site while the draws vary.  The snapshot past
\* its cap is a list longer than MaxInitFollowers.
Env(kind, max_faults, sites, failures, max_pages, max_page_size, draws) ==
  [kind |-> kind, max_faults |-> max_faults, sites |-> sites, failures |-> failures,
   max_pages |-> max_pages, max_page_size |-> max_page_size, draws |-> draws]

MinDraw == {10 * DELAY_ON_ERROR[1]}
BroadEnv == Env("broad", MaxFaults, Sites, Failures \cup {"ok_no_id"},
                MaxPages, MaxPageSize, MinDraw)
RetryEnv(site) == Env("retry", RetryFaults, {site}, Failures \cup {"ok_no_id"},
                      1, 1, MinDraw)
BackoffEnv(site) == Env("backoff", BackoffFaults, {site}, {"RateLimited"}, 1, 1, Draws)

Scenarios ==
  { <<c, BroadEnv>> : c \in ValidConfigs \cup BadConfigs \cup {OverCapConfig} }
  \cup { <<FreshConfig, RetryEnv(site)>> : site \in {"lookup", "page"} }
  \cup { <<ResumedConfig, RetryEnv("info")>> }
  \cup { <<FreshConfig, BackoffEnv(site)>> : site \in {"lookup", "page"} }
  \cup { <<ResumedConfig, BackoffEnv("info")>> }

Init ==
  /\ \E sc \in Scenarios : config = sc[1] /\ env = sc[2]
  /\ pc = "start"
  /\ terminated = FALSE
  /\ stdout_open = TRUE
  /\ exit_status = -1
  /\ followers = <<>>
  /\ target_user_id = ""
  /\ end_cursor = 0
  /\ attempt = 0
  /\ resolved = FALSE
  /\ i = 0
  /\ total = 0
  /\ trace = <<>>
  /\ faults = 0
  /\ resp = NoResponse
  /\ result = NoResult

\* ---- steps of main()
frame == <<config, env, terminated, stdout_open, resp, result>>

\* continue at `to` after the trace entries `es`
Go(es, to) ==
  /\ trace' = trace \o es
  /\ pc' = to
  /\ UNCHANGED <<frame, exit_status>>

\* sys.exit(code) after the trace entries `es`
Exit(code, es) ==
  /\ trace' = trace \o es
  /\ pc' = "exit"
  /\ exit_status' = code
  /\ UNCHANGED frame

\* output(): once the reader of stdout is gone print raises BrokenPipeError and
\* the handler calls sys.exit(0); every step that emits an event takes that
\* exit instead, after what it did before the call.

\* mutant: a checkpoint that does not look at the flag
CheckpointIgnoresFlag(to) == Go(<<>>, to)

\* `if terminated: output({"event": "terminated"}); sys.exit(0)`, else on to `to`
Checkpoint(to) ==
  IF terminated
    THEN IF stdout_open THEN Exit(0, <<Ev("terminated")>>) ELSE Exit(0, <<>>)
    ELSE Go(<<>>, to)

\* the platform fails a request only at a site it fails at, while its budget lasts
Allowed(o, site) ==
  o = "ok" \/ (site \in env.sites /\ o \in env.failures /\ faults < env.max_faults)
Count(o) == faults' = IF o = "ok" THEN faults ELSE faults + 1

\* ---- requests, logged with their outcome and the flag's value when issued
ReqValidate(o) ==
  [t |-> "req", path |-> "accounts/current_user/", outcome |-> o, sig |-> terminated]
ReqLookup(o) ==
  [t |-> "req", path |-> "users/web_profile_info/", outcome |-> o, sig |-> terminated]
ReqPage(user, max_id, o, users, next) ==
  [t |-> "req", path |-> "friendships/followers/", user |-> user, max_id |-> max_id,
   outcome |-> o, users |-> users, next |-> next, sig |-> terminated]
ReqInfo(pk, o) ==
  [t |-> "req", path |-> "users/info/", pk |-> pk, outcome |-> o, sig |-> terminated]

\* ---- signal handler
HandleSignal ==
  /\ pc # "exit"
  /\ terminated' = TRUE
  /\ UNCHANGED <<config, env, pc, stdout_open, exit_status, locals, trace, faults,
                 resp, result>>

\* ---- the reader of stdout goes away
ConsumerCloses ==
  /\ pc # "exit"
  /\ stdout_open
  /\ stdout_open' = FALSE
  /\ UNCHANGED <<config, env, pc, terminated, exit_status, locals, trace, faults,
                 resp, result>>

\* ---- main(): read the configuration
ReadConfig ==
  /\ pc = "start"
  /\ UNCHANGED faults
  /\ IF ~config.raw
       THEN /\ IF stdout_open THEN Exit(1, <<Ev("fatal")>>) ELSE Exit(0, <<>>)
            /\ UNCHANGED locals
       ELSE IF ~config.required
         THEN Exit(1, <<>>) /\ UNCHANGED locals  \* config["session_id"]: KeyError
         ELSE /\ Go(<<>>, "validate")
              /\ followers' = config.followers
              /\ target_user_id' = config.target_user_id
              /\ UNCHANGED <<end_cursor, attempt, resolved, i, total>>

\* ---- main(): validate the session
\* mutant: a rate-limited identity check ends the run
ValidateDecisionStrict(o) ==
  CASE o = "ok" -> "session_valid"
    [] o = "SessionExpired" -> "fatal"
    [] o = "RateLimited" -> "fatal"
    [] OTHER -> "info"

\* which handler of the try block around the identity check runs
ValidateDecision(o) ==
  CASE o = "ok" -> "session_valid"
    [] o = "SessionExpired" -> "fatal"
    [] o = "RateLimited" -> "info"
    [] OTHER -> "info"

ValidateSession ==
  /\ pc = "validate"
  /\ UNCHANGED locals
  /\ \E o \in Outcomes :
       /\ Allowed(o, "validate")
       /\ Count(o)
       /\ LET req == <<ReqValidate(o)>>
              d == ValidateDecision(o)
          IN  IF ~stdout_open THEN Exit(0, req)
              ELSE IF d = "fatal" THEN Exit(1, req \o <<Ev("fatal")>>)
              ELSE Go(req \o <<Ev(d)>>, "phase1")

\* ---- main(): phase 1 is entered only for phase "full"
\* mutant: a resumed enrichment collects the followers again
RunsPhase1OnResume(phase) == phase \in {"full", "bios"}

\* `if phase in ("full",)`
RunsPhase1(phase) == phase = "full"

\* mutant: the target is looked up even when the configuration carries its id
NeedsResolveAlways(tid) == tid = tid

\* `if not target_user_id`
NeedsResolve(tid) == tid = ""

EnterCollect ==
  /\ pc = "phase1"
  /\ UNCHANGED <<faults, followers, target_user_id, i, total>>
  /\ IF ~RunsPhase1(config.phase)
       THEN Go(<<>>, "phase2") /\ UNCHANGED <<end_cursor, attempt, resolved>>
       ELSE IF ~stdout_open
         THEN Exit(0, <<>>) /\ UNCHANGED <<end_cursor, attempt, resolved>>
         ELSE IF NeedsResolve(target_user_id)
           THEN /\ Go(<<[t |-> "ev", event |-> "phase", phase |-> "collecting_followers"]>>,
                      "resolve")
                /\ attempt' = 0
                /\ resolved' = FALSE
                /\ UNCHANGED end_cursor
           ELSE /\ Go(<<[t |-> "ev", event |-> "phase", phase |-> "collecting_followers"]>>,
                      "page")
                /\ end_cursor' = config.cursor
                /\ UNCHANGED <<attempt, resolved>>

\* ---- main(): resolve the target's user id
\* head of `for attempt in range(MAX_RETRIES)` and the checkpoint in its body
ResolveCheck ==
  /\ pc = "resolve"
  /\ attempt < MAX_RETRIES
  /\ UNCHANGED <<faults, locals>>
  /\ Checkpoint("resolve_req")

\* mutant: a 200 without a user id is taken for a resolved target
ResolveDecisionAcceptsNoId(o, att) ==
  CASE o \in {"ok", "ok_no_id"} -> "user_resolved"
    [] o = "NotFound" -> "fatal"
    [] o = "SessionExpired" -> "fatal"
    [] o = "RateLimited" -> "rate_limited"
    [] OTHER -> IF att = MAX_RETRIES - 1 THEN "fatal" ELSE "error"

\* which branch of the lookup's try block runs; "ok_no_id" is a 200 without
\* a user id, which the try block turns into ApiError("No user ID in response")
ResolveDecision(o, att) ==
  CASE o = "ok" -> "user_resolved"
    [] o = "NotFound" -> "fatal"
    [] o = "SessionExpired" -> "fatal"
    [] o = "RateLimited" -> "rate_limited"
    [] OTHER -> IF att = MAX_RETRIES - 1 THEN "fatal" ELSE "error"

ResolveAttempt ==
  /\ pc = "resolve_req"
  /\ UNCHANGED <<followers, i, total>>
  /\ \E o \in Outcomes \cup {"ok_no_id"}, draw \in env.draws :
       /\ Allowed(o, "lookup")
       /\ Count(o)
       /\ LET req == <<ReqLookup(o)>>
              d == ResolveDecision(o, attempt)
              wait == IF d = "rate_limited" THEN RateLimitWait(draw, attempt) ELSE draw
          IN  IF ~stdout_open
                THEN Exit(0, req) /\ UNCHANGED <<target_user_id, end_cursor, attempt, resolved>>
              ELSE CASE d = "user_resolved" ->
                     /\ Go(req \o <<[t |-> "ev", event |-> "user_resolved",
                                      user_id |-> "srv_id"]>>, "page")
                     /\ target_user_id' = "srv_id"
                     /\ resolved' = TRUE
                     /\ end_cursor' = config.cursor
                     /\ UNCHANGED attempt
                [] d = "fatal" ->
                     /\ Exit(1, req \o <<Ev("fatal")>>)
                     /\ UNCHANGED <<target_user_id, end_cursor, attempt, resolved>>
                [] d = "rate_limited" ->
                     /\ Go(req \o <<[t |-> "ev", event |-> "rate_limited",
                                      context |-> "user_lookup", wait |-> Round(wait),
                                      attempt |-> attempt + 1],
                                     TimeSleep(wait, "DELAY_ON_ERROR", attempt + 1)>>,
                           "resolve")
                     /\ attempt' = attempt + 1
                     /\ UNCHANGED <<target_user_id, end_cursor, resolved>>
                [] OTHER ->
                     /\ Go(req \o <<[t |-> "ev", event |-> "error",
                                      context |-> "user_lookup", wait |-> Round(wait)],
                                     TimeSleep(wait, "DELAY_ON_ERROR", 1)>>, "resolve")
                     /\ attempt' = attempt + 1
                     /\ UNCHANGED <<target_user_id, end_cursor, resolved>>

\* the loop ran out of attempts: `if not resolved`
ResolveExhausted ==
  /\ pc = "resolve"
  /\ attempt = MAX_RETRIES
  /\ ~resolved
  /\ UNCHANGED <<faults, locals>>
  /\ IF stdout_open THEN Exit(1, <<Ev("fatal")>>) ELSE Exit(0, <<>>)

\* ---- main(): paginate the followers
\* checkpoint at the head of `while True`
PageCheck ==
  /\ pc = "page"
  /\ UNCHANGED <<faults, locals>>
  /\ Checkpoint("page_req")

\* the records of page p: pk, username and full_name normalised from the payload
PageUsers(p, n) == [r \in 1..n |-> 10 * p + r]

\* mutant: a rate-limited page request is reported as a page
PageDecisionCountsRateLimited(o) ==
  CASE o = "ok" -> "followers_page"
    [] o = "RateLimited" -> "followers_page"
    [] o = "SessionExpired" -> "fatal"
    [] OTHER -> "error"

\* mutant: a page that fails for another reason than rate limiting ends the crawl
PageDecisionGivesUp(o) ==
  CASE o = "ok" -> "followers_page"
    [] o = "RateLimited" -> "rate_limited"
    [] OTHER -> "fatal"

\* which handler of the page's try block runs
PageDecision(o) ==
  CASE o = "ok" -> "followers_page"
    [] o = "RateLimited" -> "rate_limited"
    [] o = "SessionExpired" -> "fatal"
    [] OTHER -> "error"

\* after a page: leave the loop for want of a token, leave it at the cap, or go on
PageStop(next, cap, len) ==
  IF next = 0 THEN "end"
  ELSE IF cap # 0 /\ len >= cap THEN "cap"
  ELSE "continue"

\* followers[:max_followers]
Truncate(fs, cap) == SubSeq(fs, 1, IF Len(fs) < cap THEN Len(fs) ELSE cap)

PageFetch ==
  /\ pc = "page_req"
  /\ UNCHANGED <<target_user_id, attempt, resolved, i, total>>
  /\ \E o \in Outcomes, n \in 0..env.max_page_size, more \in BOOLEAN,
        wait \in env.draws :
       /\ Allowed(o, "page")
       /\ Count(o)
       /\ o # "ok" => n = 0 /\ ~more
       /\ more => end_cursor + 1 < env.max_pages
       /\ LET p == end_cursor + 1
              next == IF more THEN p ELSE 0
              new == PageUsers(p, n)
              req == <<ReqPage(target_user_id, end_cursor, o, new, next)>>
              d == PageDecision(o)
              all == followers \o new
          IN  CASE d = "followers_page" ->
                     LET stop == PageStop(next, config.max_followers, Len(all))
                         page == [t |-> "ev", event |-> "followers_page",
                                  new_count |-> Len(new), total |-> Len(all),
                                  cursor |-> next, users |-> new]
                     IN  /\ end_cursor' = next
                         /\ IF ~stdout_open
                              THEN Exit(0, req) /\ followers' = all
                              ELSE CASE stop = "end" ->
                                          Go(req \o <<page>>, "followers_done")
                                          /\ followers' = all
                                     [] stop = "cap" ->
                                          Go(req \o <<page>>, "followers_done")
                                          /\ followers' = Truncate(all, config.max_followers)
                                     [] OTHER ->
                                          Go(req \o <<page, Sleep("DELAY_FOLLOWER_PAGE", 1)>>,
                                             "page")
                                          /\ followers' = all
                [] d = "fatal" ->
                     /\ IF stdout_open THEN Exit(1, req \o <<Ev("fatal")>>) ELSE Exit(0, req)
                     /\ UNCHANGED <<followers, end_cursor>>
                [] OTHER ->
                     /\ IF stdout_open
                          THEN Go(req \o <<[t |-> "ev", event |-> d, context |-> "followers",
                                            wait |-> Round(wait)],
                                           TimeSleep(wait, "DELAY_ON_ERROR", 1)>>, "page")
                          ELSE Exit(0, req)
                     /\ UNCHANGED <<followers, end_cursor>>

FollowersDone ==
  /\ pc = "followers_done"
  /\ UNCHANGED <<faults, locals>>
  /\ IF stdout_open
       THEN Go(<<[t |-> "ev", event |-> "followers_done", total |-> Len(followers)]>>,
               "phase2")
       ELSE Exit(0, <<>>)

\* ---- main(): phase 2, the bios
\* `if phase in ("full", "bios")`
RunsPhase2(phase) == phase \in {"full", "bios"}

EnterBios ==
  /\ pc = "phase2"
  /\ UNCHANGED <<faults, followers, target_user_id, end_cursor, attempt, resolved>>
  /\ IF ~RunsPhase2(config.phase)
       THEN Go(<<>>, "done") /\ UNCHANGED <<i, total>>
       ELSE IF ~stdout_open
         THEN Exit(0, <<>>) /\ UNCHANGED <<i, total>>
         ELSE /\ Go(<<[t |-> "ev", event |-> "phase", phase |-> "fetching_bios"]>>,
                    "bio_loop")
              /\ total' = Len(followers)
              /\ i' = config.start_bio_index

\* head of `for i in range(start_bio_index, total)` and its checkpoint
BioCheck ==
  /\ pc = "bio_loop"
  /\ UNCHANGED <<faults, followers, target_user_id, end_cursor, resolved, i, total>>
  /\ IF i >= total
       THEN Go(<<>>, "done") /\ UNCHANGED attempt
       ELSE /\ Checkpoint("bio_req")
            /\ attempt' = IF terminated THEN attempt ELSE 0

\* mutant: an expired session is retried like any other error
BioDecisionRetriesExpired(o, att) ==
  CASE o = "ok" -> "bio_result"
    [] o = "RateLimited" -> "rate_limited"
    [] o = "NotFound" -> "bio_skip"
    [] OTHER -> IF att = MAX_RETRIES - 1 THEN "bio_skip" ELSE "error"

\* mutant: a profile that is not found is retried like any other error
BioDecisionRetriesNotFound(o, att) ==
  CASE o = "ok" -> "bio_result"
    [] o = "RateLimited" -> "rate_limited"
    [] o = "SessionExpired" -> "fatal"
    [] OTHER -> IF att = MAX_RETRIES - 1 THEN "bio_skip" ELSE "error"

\* which branch of the profile fetch's try block runs
BioDecision(o, att) ==
  CASE o = "ok" -> "bio_result"
    [] o = "RateLimited" -> "rate_limited"
    [] o = "SessionExpired" -> "fatal"
    [] o = "NotFound" -> "bio_skip"
    [] OTHER -> IF att = MAX_RETRIES - 1 THEN "bio_skip" ELSE "error"

\* mutant: the enrichment retries a follower without counting the attempts
BioRetryUnbounded(att) == IF att + 1 > 0 THEN "bio_req" ELSE "bio_pace"

\* where the retry loop goes after a failed attempt that is neither a skip nor fatal
BioRetry(att) == IF att + 1 < MAX_RETRIES THEN "bio_req" ELSE "bio_pace"

BioAttempt ==
  /\ pc = "bio_req"
  /\ UNCHANGED <<followers, target_user_id, end_cursor, resolved, i, total>>
  /\ \E o \in Outcomes, draw \in env.draws :
       /\ Allowed(o, "info")
       /\ Count(o)
       /\ LET f == followers[i + 1]
              req == <<ReqInfo(f, o)>>
              d == BioDecision(o, attempt)
              wait == IF d = "rate_limited" THEN RateLimitWait(draw, attempt) ELSE draw
          IN  IF ~stdout_open THEN Exit(0, req) /\ UNCHANGED attempt
              ELSE CASE d = "bio_result" ->
                          /\ Go(req \o <<[t |-> "ev", event |-> "bio_result",
                                           index |-> i, pk |-> f]>>, "bio_pace")
                          /\ UNCHANGED attempt
                     [] d = "bio_skip" ->
                          /\ Go(req \o <<[t |-> "ev", event |-> "bio_skip",
                                           index |-> i, pk |-> f, reason |-> o]>>, "bio_pace")
                          /\ UNCHANGED attempt
                     [] d = "fatal" ->
                          /\ Exit(1, req \o <<Ev("fatal")>>)
                          /\ UNCHANGED attempt
                     [] d = "rate_limited" ->
                          /\ Go(req \o <<[t |-> "ev", event |-> "rate_limited",
                                           context |-> "bio", wait |-> Round(wait),
                                           attempt |-> attempt + 1],
                                          TimeSleep(wait, "DELAY_ON_ERROR", attempt + 1)>>,
                                BioRetry(attempt))
                          /\ attempt' = attempt + 1
                     [] OTHER ->
                          /\ Go(req \o <<[t |-> "ev", event |-> "error", context |-> "bio",
                                           wait |-> Round(wait)],
                                          TimeSleep(wait, "DELAY_ON_ERROR", 1)>>,
                                BioRetry(attempt))
                          /\ attempt' = attempt + 1

\* mutant: no pacing delay before the last follower either
PacesTooFew(idx, tot) == idx < tot - 2

\* `if i < total - 1`
Paces(idx, tot) == idx < tot - 1

\* `if i < total - 1: rand_delay(*DELAY_BIO_FETCH)` and the loop's increment
BioPace ==
  /\ pc = "bio_pace"
  /\ UNCHANGED <<faults, followers, target_user_id, end_cursor, attempt, resolved, total>>
  /\ Go(IF Paces(i, total) THEN <<Sleep("DELAY_BIO_FETCH", 1)>> ELSE <<>>, "bio_loop")
  /\ i' = i + 1

Done ==
  /\ pc = "done"
  /\ UNCHANGED <<faults, locals>>
  /\ IF stdout_open THEN Exit(0, <<Ev("done")>>) ELSE Exit(0, <<>>)

\* ---- the specifications
Main ==
  \/ ReadConfig \/ ValidateSession \/ EnterCollect
  \/ ResolveCheck \/ ResolveAttempt \/ ResolveExhausted
  \/ PageCheck \/ PageFetch \/ FollowersDone
  \/ EnterBios \/ BioCheck \/ BioAttempt \/ BioPace \/ Done

\* the reader of the event stream stays attached
Next == Main \/ HandleSignal

Spec == Init /\ [][Next]_vars

\* the reader of the event stream may go away at any time
NextPipe == Main \/ HandleSignal \/ ConsumerCloses

SpecPipe == Init /\ [][NextPipe]_vars

\* the runs in which one call site keeps failing; main() runs to its end
\* whenever it can take a step (the interpreter is never starved)
InitRetry == Init /\ env.kind = "retry"

SpecRetry == InitRetry /\ [][Next]_vars /\ WF_vars(Main)

\* the runs in which one call site is rate-limited and the draws vary
InitBackoff == Init /\ env.kind = "backoff"

SpecBackoff == InitBackoff /\ [][Next]_vars

\* ---- ig_request on its own: any response to any path, classified once
InitClassify ==
  /\ config = FreshConfig
  /\ env = Env("classify", 0, {}, {}, 0, 0, {})
  /\ pc = "validate"
  /\ terminated = FALSE
  /\ stdout_open = TRUE
  /\ exit_status = -1
  /\ followers = <<>>
  /\ target_user_id = ""
  /\ end_cursor = 0
  /\ attempt = 0
  /\ resolved = FALSE
  /\ i = 0
  /\ total = 0
  /\ trace = <<>>
  /\ faults = 0
  /\ resp = NoResponse
  /\ result = NoResult

\* resp = session.get(url, params=params, timeout=30)
SessionGet ==
  /\ resp = NoResponse
  /\ \E path \in Paths, status \in Statuses, body \in Bodies :
       resp' = [path |-> path, status |-> status, body |-> body]
  /\ UNCHANGED <<config, env, pc, terminated, stdout_open, exit_status, locals,
                 trace, faults, result>>

\* the rest of ig_request
IgRequest ==
  /\ resp # NoResponse
  /\ result = NoResult
  /\ result' = ig_request(resp)
  /\ UNCHANGED <<config, env, pc, terminated, stdout_open, exit_status, locals,
                 trace, faults, resp>>

NextClassify == SessionGet \/ IgRequest

SpecClassify == InitClassify /\ [][NextClassify]_vars

\* ======================================================================
\* Properties
\* ======================================================================
Idx == 1..Len(trace)
EvIdx(name) == {p \in Idx : IsEv(trace[p], name)}
ReqIdx(path) == {p \in Idx : IsReqTo(trace[p], path)}
NumEv(name) == Cardinality(EvIdx(name))
BioEvIdx == EvIdx("bio_result") \cup EvIdx("bio_skip")
BioEventsFor(j) == {p \in BioEvIdx : trace[p].index = j}
\* indices the enrichment loop has moved past
Passed == {j \in 0..(Len(followers) - 1) : config.start_bio_index <= j /\ j < i}
Last == trace[Len(trace)]
Terminal(e) == e.t = "ev" /\ e.event \in {"fatal", "terminated", "done"}

\* C1: every follower index the enrichment loop has processed has exactly one
\* bio_result or bio_skip event, so that when done is emitted the bio_result
\* and bio_skip events together number len(followers) - start_bio_index.
C1_SkipAccounting ==
  /\ \A j \in Passed : Cardinality(BioEventsFor(j)) = 1
  /\ (NumEv("done") = 1 /\ RunsPhase2(config.phase)) =>
        NumEv("bio_result") + NumEv("bio_skip") =
          IF Len(followers) > config.start_bio_index
            THEN Len(followers) - config.start_bio_index ELSE 0

\* C2: a request that ends in SessionExpired, at any call site, is the last
\* request of the run: the next and last event is fatal and the exit status is 1.
C2_SessionExpiredIsFatal ==
  \A p \in Idx :
    (IsReq(trace[p]) /\ trace[p].outcome = "SessionExpired") =>
       /\ Len(trace) = p + 1
       /\ trace[p + 1] = Ev("fatal")
       /\ pc = "exit"
       /\ exit_status = 1

\* C2 witness: the session expired at a profile fetch after a bio was delivered
C2_Witness ==
  /\ NumEv("bio_result") >= 1
  /\ \E p \in ReqIdx("users/info/") : trace[p].outcome = "SessionExpired"

\* C3: with a follower cap configured (and a supplied list shorter than the
\* cap), the list held once followers_done is emitted, which the enrichment
\* then walks, never has more entries than the cap.
C3_CapRespected ==
  (/\ config.max_followers # 0
   /\ Len(config.followers) < config.max_followers
   /\ NumEv("followers_done") > 0) =>
     Len(followers) <= config.max_followers

\* C4: in a run whose only failed requests are rate-limited ones, no fatal
\* event is emitted and every follower the enrichment has moved past was
\* enriched: rate limiting alone never exhausts a retry loop.
C4_RateLimitNeverExhausts ==
  (/\ config.raw /\ config.required
   /\ \A p \in Idx : IsReq(trace[p]) => trace[p].outcome \in {"ok", "RateLimited"}) =>
     /\ NumEv("fatal") = 0
     /\ \A j \in Passed : \E p \in EvIdx("bio_result") : trace[p].index = j

\* C5: at most one request is issued once the cancellation flag is set.
C5_OneRequestAfterSignal ==
  Cardinality({p \in Idx : IsReq(trace[p]) /\ trace[p].sig}) <= 1

\* C6: a step taken from a checkpoint (a resolution attempt, a page iteration,
\* a follower) while the flag is set emits terminated and nothing else and
\* exits with status 0; a terminated event is the last entry of the trace.
AtCheckpoint ==
  \/ pc = "resolve" /\ attempt < MAX_RETRIES
  \/ pc = "page"
  \/ pc = "bio_loop" /\ i < total

C6_CooperativeTermination ==
  /\ [][ (AtCheckpoint /\ terminated /\ pc' # pc) =>
           /\ trace' = Append(trace, Ev("terminated"))
           /\ pc' = "exit"
           /\ exit_status' = 0 ]_vars
  /\ [](\A p \in EvIdx("terminated") :
           p = Len(trace) /\ pc = "exit" /\ exit_status = 0)

\* C6 witness: cancelled between the first page and the second
C6_Witness ==
  /\ pc = "exit"
  /\ exit_status = 0
  /\ Len(trace) > 0
  /\ Last = Ev("terminated")
  /\ NumEv("followers_page") = 1

\* C7: a run resumed with phase = bios issues no lookup and no page request
\* and emits no user_resolved, followers_page or followers_done; its bio
\* events carry indices start_bio_index..N-1 in strictly increasing order,
\* and the loop index is past every follower that has its event.
C7_ResumeCorrectness ==
  config.phase = "bios" =>
    /\ ReqIdx("users/web_profile_info/") = {}
    /\ ReqIdx("friendships/followers/") = {}
    /\ EvIdx("user_resolved") = {}
    /\ EvIdx("followers_page") = {}
    /\ EvIdx("followers_done") = {}
    /\ \A p \in BioEvIdx :
         /\ config.start_bio_index <= trace[p].index
         /\ trace[p].index < Len(config.followers)
         /\ trace[p].pk = config.followers[trace[p].index + 1]
    /\ \A p, q \in BioEvIdx : p < q => trace[p].index < trace[q].index
    /\ pc \in {"bio_loop", "bio_req"} => \A p \in BioEvIdx : trace[p].index < i

\* C7 witness: resumed at index 1 with a cursor; one follower enriched, one skipped
C7_Witness ==
  /\ config.phase = "bios"
  /\ config.cursor # 0
  /\ config.start_bio_index = 1
  /\ NumEv("bio_result") = 1
  /\ NumEv("bio_skip") = 1
  /\ NumEv("done") = 1

\* C8: without a cap, the followers_page events are exactly the successfully
\* fetched pages, in order, each with the page's size and continuation token;
\* followers_done is emitted once, after the only page without a token, with
\* total = the configured followers plus the sizes of all pages.
OkPages ==
  SelectSeq(trace, LAMBDA e : IsReqTo(e, "friendships/followers/") /\ e.outcome = "ok")
PageEvs == SelectSeq(trace, LAMBDA e : IsEv(e, "followers_page"))

RECURSIVE SizeSum(_, _)
SizeSum(pages, k) == IF k = 0 THEN 0 ELSE Len(pages[k].users) + SizeSum(pages, k - 1)

C8_PaginationAccounting ==
  config.max_followers = 0 =>
    LET ok == OkPages
        evs == PageEvs
        n == Len(ok)
    IN  /\ Len(evs) = n
        /\ \A k \in 1..n :
             /\ evs[k].new_count = Len(ok[k].users)
             /\ evs[k].users = ok[k].users
             /\ evs[k].cursor = ok[k].next
             /\ evs[k].total = Len(config.followers) + SizeSum(ok, k)
        /\ NumEv("followers_done") <= 1
        /\ \A d \in EvIdx("followers_done") :
             /\ trace[d].total = Len(config.followers) + SizeSum(ok, n)
             /\ n >= 1
             /\ \A k \in 1..n : (ok[k].next = 0) <=> (k = n)
             /\ \A p \in EvIdx("followers_page") \cup ReqIdx("friendships/followers/") :
                  p < d

\* C8 witness: two pages after a resumed list of one, with a failed page request
C8_Witness ==
  /\ config.max_followers = 0
  /\ Len(config.followers) = 1
  /\ NumEv("followers_done") = 1
  /\ Len(PageEvs) = 2
  /\ Cardinality(ReqIdx("friendships/followers/")) = 3

\* C9: with a target id in the configuration there is no lookup and no
\* user_resolved, in phase full the request after the identity check is a
\* page request, and every page request carries the configured id; in any
\* run no lookup follows user_resolved.
Reqs == SelectSeq(trace, IsReq)

C9_IdempotentResolution ==
  /\ config.target_user_id # "" =>
       /\ ReqIdx("users/web_profile_info/") = {}
       /\ EvIdx("user_resolved") = {}
       /\ \A p \in ReqIdx("friendships/followers/") :
            trace[p].user = config.target_user_id
       /\ LET rs == Reqs
          IN  (config.phase = "full" /\ Len(rs) >= 2) =>
                 rs[2].path = "friendships/followers/"
  /\ NumEv("user_resolved") <= 1
  /\ \A p \in EvIdx("user_resolved"), q \in ReqIdx("users/web_profile_info/") : q < p
  /\ \A p \in EvIdx("user_resolved"), q \in ReqIdx("friendships/followers/") :
       p < q /\ trace[q].user = trace[p].user_id

\* C9 witness: a configured id used for two pages
C9_Witness ==
  /\ config.target_user_id # ""
  /\ config.phase = "full"
  /\ Cardinality(ReqIdx("friendships/followers/")) = 2
  /\ NumEv("followers_done") = 1

\* C10: a run that received a configuration ends with exactly one terminal
\* event, its last; the exit status is 1 iff that event is fatal, else 0.
C10_TerminalEventAndStatus ==
  (pc = "exit" /\ config.raw) =>
     /\ Len(trace) > 0
     /\ Terminal(Last)
     /\ Cardinality({p \in Idx : Terminal(trace[p])}) = 1
     /\ exit_status = IF Last.event = "fatal" THEN 1 ELSE 0

\* C11: every failed request, at every call site and on every attempt, is
\* followed at once by an event that reports it (info, rate_limited, error,
\* bio_skip or fatal), before any further request, sleep or exit; a
\* rate_limited or error event names the call site that failed and a
\* bio_skip names the follower whose profile was requested.
FailedReq(e) == IsReq(e) /\ e.outcome # "ok"
FailureEvents == {"info", "rate_limited", "error", "bio_skip", "fatal"}
SiteContext(path) ==
  CASE path = "users/web_profile_info/" -> "user_lookup"
    [] path = "friendships/followers/" -> "followers"
    [] path = "users/info/" -> "bio"
    [] OTHER -> "none"

C11_ErrorVisibility ==
  \A p \in Idx :
    FailedReq(trace[p]) =>
      /\ p < Len(trace)
      /\ trace[p + 1].t = "ev"
      /\ trace[p + 1].event \in FailureEvents
      /\ trace[p + 1].event \in {"rate_limited", "error"} =>
            trace[p + 1].context = SiteContext(trace[p].path)
      /\ trace[p + 1].event = "rate_limited" <=>
            (trace[p].outcome = "RateLimited" /\ trace[p].path # "accounts/current_user/")
      /\ trace[p + 1].event = "bio_skip" =>
            (trace[p].path = "users/info/" /\ trace[p + 1].pk = trace[p].pk)
      /\ trace[p + 1].event = "info" => trace[p].path = "accounts/current_user/"

\* C11 witness: a lookup answered without a user id and a failed page request,
\* both reported, in a run that went on to collect a page
C11_Witness ==
  /\ \E p \in ReqIdx("users/web_profile_info/") : trace[p].outcome = "ok_no_id"
  /\ \E p \in ReqIdx("friendships/followers/") : trace[p].outcome = "ApiError"
  /\ NumEv("followers_page") = 1

\* C12: in a run started with start_bio_index <= len(followers), the index of
\* the next follower to enrich (start_bio_index until the enrichment loop starts,
\* then its loop index) never exceeds len(followers), in either phase and also
\* after the list is truncated to the cap.
NextBioIndex ==
  IF \E p \in EvIdx("phase") : trace[p].phase = "fetching_bios"
    THEN i ELSE config.start_bio_index

C12_BioIndexInRange ==
  (/\ pc # "start"
   /\ config.raw /\ config.required
   /\ config.start_bio_index <= Len(config.followers)) =>
     NextBioIndex <= Len(followers)

\* C13: ig_request maps a response to one outcome that depends on the response
\* alone: 401 SessionExpired; 429 RateLimited; 404 NotFound naming the path; a
\* 400 whose message contains challenge_required, checkpoint_required or
\* login_required SessionExpired; every other 400, also with an unparseable or
\* non-object body, ApiError with status 400; any other status but 200 ApiError
\* with that status; a 200 that is not JSON ApiError with status 200; a 200
\* with a JSON body the decoded payload.
C13_Claimed(r, x) ==
  CASE r.status = 401 -> x.exc = "SessionExpired"
    [] r.status = 429 -> x.exc = "RateLimited"
    [] r.status = 404 -> x.exc = "NotFound" /\ x.detail = r.path
    [] r.status = 400 /\ r.body.has # {} -> x.exc = "SessionExpired"
    [] r.status = 400 /\ r.body.has = {} -> x.exc = "ApiError" /\ x.status = 400
    [] r.status = 200 /\ r.body.kind = "text" -> x.exc = "ApiError" /\ x.status = 200
    [] r.status = 200 /\ r.body.kind # "text" -> x.exc = "" /\ x.payload = r.body
    [] OTHER -> x.exc = "ApiError" /\ x.status = r.status

C13_ClassifierTotal ==
  result # NoResult => C13_Claimed(resp, result)

\* C14: a configuration without session_id or target_username ends the run
\* as an absent configuration does: one fatal event, exit status 1, no request.
C14_MissingFieldIsFatal ==
  (pc = "exit" /\ ~config.required) =>
     /\ trace = <<Ev("fatal")>>
     /\ exit_status = 1

\* C15: a page request that fails with RateLimited or any error but
\* SessionExpired leaves followers and end_cursor as they were, emits
\* rate_limited or error (never followers_page or fatal) and an error backoff,
\* and the next request, if the run issues one, asks for the same page of the
\* same user with the same cursor, however many such failures there were; a
\* successful page appends its records, in the order returned, to the end of
\* the list (which is then cut to the cap if the loop stops at the cap),
\* leaving the earlier entries in place and in order.
PageIdx == ReqIdx("friendships/followers/")
RetriedFailure(e) == e.outcome \notin {"ok", "SessionExpired"}
NextReqAfter(p) == {q \in Idx : q > p /\ IsReq(trace[q]) /\ \A m \in (p + 1)..(q - 1) : ~IsReq(trace[m])}

C15_PageRetryFrame ==
  /\ [][ (pc = "page_req" /\ pc' # pc) =>
           LET r == trace'[Len(trace) + 1]
               all == followers \o r.users
           IN  /\ IsReqTo(r, "friendships/followers/")
               /\ r.max_id = end_cursor
               /\ RetriedFailure(r) =>
                    /\ followers' = followers
                    /\ end_cursor' = end_cursor
                    /\ pc' = "page"
                    /\ Len(trace') = Len(trace) + 3
                    /\ trace'[Len(trace) + 2].t = "ev"
                    /\ trace'[Len(trace) + 2].event =
                         (IF r.outcome = "RateLimited" THEN "rate_limited" ELSE "error")
                    /\ trace'[Len(trace) + 3].t = "sleep"
                    /\ trace'[Len(trace) + 3].range = "DELAY_ON_ERROR"
                    /\ trace'[Len(trace) + 3].mult = 1
               /\ r.outcome = "ok" =>
                    /\ end_cursor' = r.next
                    /\ \/ followers' = all
                       \/ /\ pc' = "followers_done"
                          /\ followers' = SubSeq(all, 1, config.max_followers) ]_vars
  /\ [](\A p \in PageIdx :
          RetriedFailure(trace[p]) =>
            /\ trace[p].users = <<>>
            /\ \A q \in NextReqAfter(p) :
                 /\ IsReqTo(trace[q], "friendships/followers/")
                 /\ trace[q].max_id = trace[p].max_id
                 /\ trace[q].user = trace[p].user
                 /\ \A m \in (p + 1)..(q - 1) :
                      ~IsEv(trace[m], "followers_page") /\ ~IsEv(trace[m], "fatal"))

\* C15 witness: more failed requests for the first page than a retry loop has
\* attempts, rate-limited and other, and then the page
C15_Witness ==
  /\ Cardinality({p \in PageIdx : trace[p].outcome = "RateLimited"}) >= 2
  /\ Cardinality({p \in PageIdx : RetriedFailure(trace[p])}) > MAX_RETRIES
  /\ NumEv("followers_page") = 1
  /\ Len(followers) = 1
  /\ NumEv("followers_done") = 1

\* C16: no more than MAX_RETRIES requests are issued for the target lookup
\* or for one follower's profile, whatever their outcomes; a generic error on
\* the last lookup is fatal, on the last attempt at a profile a bio_skip; the
\* resolution always comes to user_resolved, fatal or terminated and the
\* enrichment to done, fatal or terminated.
LookupIdx == ReqIdx("users/web_profile_info/")
InfoIdx(pk) == {p \in ReqIdx("users/info/") : trace[p].pk = pk}
Generic(e) == e.outcome \notin {"ok", "SessionExpired", "RateLimited", "NotFound"}
NthOf(p, S) == Cardinality({q \in S : q <= p})
Ended(names) == \E p \in Idx : trace[p].t = "ev" /\ trace[p].event \in names

C16_RetriesBounded ==
  /\ Cardinality(LookupIdx) <= MAX_RETRIES
  /\ \A k \in 1..Len(followers) : Cardinality(InfoIdx(followers[k])) <= MAX_RETRIES
  /\ \A p \in LookupIdx :
       (Generic(trace[p]) /\ NthOf(p, LookupIdx) = MAX_RETRIES) =>
          trace[p + 1] = Ev("fatal") /\ exit_status = 1
  /\ \A p \in ReqIdx("users/info/") :
       (Generic(trace[p]) /\ NthOf(p, InfoIdx(trace[p].pk)) = MAX_RETRIES) =>
          /\ IsEv(trace[p + 1], "bio_skip")
          /\ trace[p + 1].pk = trace[p].pk
  /\ (pc \in {"page", "page_req"} /\ NeedsResolve(config.target_user_id)) =>
       Ended({"user_resolved"})

C16_BoundedRetriesTerminate ==
  /\ []C16_RetriesBounded
  /\ (pc = "resolve") ~> Ended({"user_resolved", "fatal", "terminated"})
  /\ (pc = "bio_loop") ~> Ended({"done", "fatal", "terminated"})

\* C16 witness: a follower skipped on a generic error at the fifth attempt,
\* after rate-limited ones, in a run that went on to done
C16_Witness ==
  /\ \E p \in ReqIdx("users/info/") :
       /\ Generic(trace[p])
       /\ NthOf(p, InfoIdx(trace[p].pk)) = MAX_RETRIES
       /\ \E q \in InfoIdx(trace[p].pk) : trace[q].outcome = "RateLimited"
  /\ NumEv("done") = 1

\* C17: NotFound is never retried.  A lookup that ends in NotFound is the
\* last request: fatal follows at once and the exit status is 1.  A profile
\* request for follower i that ends in NotFound is followed at once by the
\* only bio event of i, a bio_skip; no later request is for i, the next
\* request, if any, is for follower i + 1, and no fatal follows from it.
C17_NotFoundIsPermanent ==
  /\ \A p \in LookupIdx :
       trace[p].outcome = "NotFound" =>
         /\ Len(trace) = p + 1
         /\ trace[p + 1] = Ev("fatal")
         /\ pc = "exit"
         /\ exit_status = 1
  /\ \A p \in ReqIdx("users/info/") :
       trace[p].outcome = "NotFound" =>
         /\ IsEv(trace[p + 1], "bio_skip")
         /\ trace[p + 1].pk = trace[p].pk
         /\ followers[trace[p + 1].index + 1] = trace[p].pk
         /\ BioEventsFor(trace[p + 1].index) = {p + 1}
         /\ \A q \in InfoIdx(trace[p].pk) : q <= p
         /\ \A q \in NextReqAfter(p) :
              /\ IsReqTo(trace[q], "users/info/")
              /\ trace[q].pk = followers[trace[p + 1].index + 2]
         /\ \A m \in EvIdx("fatal") : m > p => \E q \in (p + 1)..(m - 1) : IsReq(trace[q])

\* C17 witness: a follower not found on the attempt after a rate-limited one,
\* the next follower enriched, and the run done
C17_Witness ==
  /\ \E p \in ReqIdx("users/info/") :
       /\ trace[p].outcome = "NotFound"
       /\ \E q \in InfoIdx(trace[p].pk) : q < p
       /\ \E q \in EvIdx("bio_result") : q > p
  /\ NumEv("done") = 1

\* C18: between two consecutive page requests and between two consecutive
\* profile requests there is a sleep.  A successful page followed by another
\* page request is followed by its followers_page event and the page pacing
\* delay; followers_done comes directly after a followers_page event, with no
\* delay in between, and every page pacing delay follows a page that carried
\* a continuation token.  The first request for the next follower comes
\* directly after the enrichment pacing delay, whether the previous follower
\* was enriched, skipped or given up; no such delay precedes done.
IsSleep(e) == e.t = "sleep"
PagePause == Sleep("DELAY_FOLLOWER_PAGE", 1)
BioPause == Sleep("DELAY_BIO_FETCH", 1)

C18_Pacing ==
  LET R == {p \in Idx : IsReq(trace[p])}
      Succ(p) == {q \in R : q > p /\ \A m \in R : ~(p < m /\ m < q)}
      pages == {p \in R : trace[p].path = "friendships/followers/"}
      infos == {p \in R : trace[p].path = "users/info/"}
  IN  /\ \A p \in pages \cup infos : \A q \in Succ(p) :
           trace[p].path = trace[q].path => IsSleep(trace[q - 1])
      /\ \A p \in pages : \A q \in Succ(p) :
           (trace[p].outcome = "ok" /\ q \in pages) =>
              /\ q = p + 3
              /\ IsEv(trace[p + 1], "followers_page")
              /\ trace[p + 2] = PagePause
      /\ \A d \in EvIdx("followers_done") : IsEv(trace[d - 1], "followers_page")
      /\ \A m \in Idx :
           trace[m] = PagePause =>
             IsEv(trace[m - 1], "followers_page") /\ trace[m - 1].cursor # 0
      /\ \A p \in infos : \A q \in Succ(p) :
           trace[q].pk # trace[p].pk =>
             /\ trace[q - 1] = BioPause
             /\ \A m \in (p + 1)..(q - 2) : trace[m] # BioPause
      /\ \A d \in EvIdx("done") : trace[d - 1] # BioPause

\* C18 witness: two pages with the pacing delay between them, then a
\* follower skipped and a follower enriched with the pacing delay between them
C18_Witness ==
  /\ \E m \in Idx : trace[m] = PagePause
  /\ \E m \in Idx :
       /\ trace[m] = BioPause
       /\ IsEv(trace[m - 1], "bio_skip")
       /\ \E e \in EvIdx("bio_result") : e > m
  /\ NumEv("done") = 1

\* C19: a run that got its configuration issues one identity check, its
\* first request, and never another.  If it succeeds session_valid follows,
\* if it fails with anything but SessionExpired info follows, and the run
\* then goes on instead of exiting: the next entry announces the phase the
\* configuration asks for (or done, if it asks for none); session_valid is
\* emitted at most once, and only directly after a successful identity check.
ProbeIdx == ReqIdx("accounts/current_user/")

C19_ValidationOnceNeverFatal ==
  /\ ProbeIdx \subseteq {1}
  /\ (config.raw /\ config.required /\ pc \notin {"start", "validate"}) => ProbeIdx = {1}
  /\ \A p \in ProbeIdx :
       /\ trace[p].outcome = "ok" => trace[p + 1] = Ev("session_valid")
       /\ trace[p].outcome \notin {"ok", "SessionExpired"} => trace[p + 1] = Ev("info")
       /\ (trace[p].outcome # "SessionExpired" /\ Len(trace) = p + 1) =>
            pc # "exit" /\ exit_status = -1
       /\ (trace[p].outcome # "SessionExpired" /\ Len(trace) > p + 1) =>
            /\ trace[p + 2].t = "ev"
            /\ trace[p + 2].event =
                 (IF RunsPhase2(config.phase) THEN "phase" ELSE "done")
            /\ RunsPhase2(config.phase) =>
                 trace[p + 2].phase = (IF RunsPhase1(config.phase)
                                         THEN "collecting_followers" ELSE "fetching_bios")
  /\ NumEv("session_valid") <= 1
  /\ \A e \in EvIdx("session_valid") :
       e = 2 /\ IsReqTo(trace[1], "accounts/current_user/") /\ trace[1].outcome = "ok"

\* C19 witness: the identity check was rate-limited and the run collected a
\* page and enriched a follower all the same
C19_Witness ==
  /\ \E p \in ProbeIdx : trace[p].outcome = "RateLimited"
  /\ NumEv("session_valid") = 0
  /\ NumEv("followers_page") >= 1
  /\ NumEv("bio_result") >= 1
  /\ NumEv("done") = 1

\* C20: at the target lookup and at a profile, the rate_limited event after
\* the a-th attempt carries attempt = a and is followed by a sleep of an
\* error-range draw times a, which lies in [60a, 120a] seconds, whatever a;
\* at a page the sleep is an unscaled error-range draw; at every call site a
\* later rate-limit wait of the same retry sequence is drawn from a range
\* whose bounds are not lower than those of an earlier one, and the wait
\* reported in the event is the wait slept, rounded.
RateLimitedIdx == EvIdx("rate_limited")
\* the attempt that a failed request is: the requests for the same resource so far
AttemptOf(p) ==
  IF trace[p].path = "users/info/" THEN NthOf(p, InfoIdx(trace[p].pk))
  ELSE NthOf(p, LookupIdx)
\* bounds of the range a wait is drawn from, in tenths of a second
RangeLo(e) == 10 * DELAY_ON_ERROR[1] * e.mult
RangeHi(e) == 10 * DELAY_ON_ERROR[2] * e.mult
\* two rate-limited requests for the same resource with no success in between
SameSequence(p, q) ==
  /\ trace[p].path = trace[q].path
  /\ trace[p].path = "users/info/" => trace[p].pk = trace[q].pk
  /\ \A m \in p..q : IsReq(trace[m]) => trace[m].outcome # "ok"

C20_BackoffScaling ==
  /\ \A e \in RateLimitedIdx :
       /\ IsReq(trace[e - 1]) /\ trace[e - 1].outcome = "RateLimited"
       /\ IsSleep(trace[e + 1])
       /\ trace[e + 1].range = "DELAY_ON_ERROR"
       /\ trace[e + 1].mult =
            (IF trace[e].context = "followers" THEN 1 ELSE AttemptOf(e - 1))
       /\ trace[e].context # "followers" => trace[e].attempt = AttemptOf(e - 1)
       /\ RangeLo(trace[e + 1]) <= trace[e + 1].secs
       /\ trace[e + 1].secs <= RangeHi(trace[e + 1])
       /\ trace[e].wait = Round(trace[e + 1].secs)
       /\ 10 * trace[e].wait - 5 <= trace[e + 1].secs
       /\ trace[e + 1].secs <= 10 * trace[e].wait + 5
  /\ \A e1, e2 \in RateLimitedIdx :
       (e1 < e2 /\ SameSequence(e1 - 1, e2 - 1)) =>
          /\ RangeLo(trace[e1 + 1]) <= RangeLo(trace[e2 + 1])
          /\ RangeHi(trace[e1 + 1]) <= RangeHi(trace[e2 + 1])

\* C20 witness: a fifth rate-limited attempt at a profile whose wait is the
\* largest draw times five, after a first whose wait had to be rounded
C20_Witness ==
  \E e1, e2 \in RateLimitedIdx :
    /\ e1 < e2
    /\ SameSequence(e1 - 1, e2 - 1)
    /\ trace[e1].context = "bio"
    /\ trace[e1].attempt = 1
    /\ trace[e1 + 1].secs % 10 # 0
    /\ trace[e2].attempt = MAX_RETRIES
    /\ trace[e2 + 1].secs = 10 * DELAY_ON_ERROR[2] * MAX_RETRIES

====
